---- MODULE Spec2Model ----
(***************************************************************************)
(* Model of the Crossplane OpenStack REST facade (src/main.go).            *)
(*                                                                         *)
(* Every HTTP request is served by its own goroutine, so the handlers run  *)
(* concurrently.  A handler is modelled as a sequence of atomic steps, one *)
(* per system call or external process it runs (stat, read, open/truncate, *)
(* write, kubectl, openstack); the local computation between two calls is  *)
(* folded into the step that follows it.                                   *)
(***************************************************************************)
EXTENDS Integers, Sequences, FiniteSets, TLC

(***************************************************************************)
(* Bounds of the model.                                                    *)
(***************************************************************************)
\* requests accepted in one behaviour when they are served concurrently
MaxRequests == 2
\* requests accepted in one behaviour when they are served one after another
MaxSerialRequests == 3
\* goroutines serving requests at the same time
MaxInFlight == 2

Workers == 1..MaxInFlight

(***************************************************************************)
(* Request inputs.  "" is an absent or empty JSON string field.            *)
(***************************************************************************)
Teams == {"a"}
VMNames == {"vm1"}
Flavors == {"f1", "f2"}
Actions == {"start", "stop", "delete", "reboot"}

(***************************************************************************)
(* Go values and YAML documents.  A Go value carries its dynamic type in k *)
(* because resizeVM's type assertions look at it; a YAML node has only the *)
(* kinds map, seq, str, bool and int.                                      *)
(***************************************************************************)
GoStr(s) == [k |-> "string", s |-> s]
GoBool(b) == [k |-> "bool", b |-> b]
GoInt(n) == [k |-> "int", n |-> n]
GoMapSI(m) == [k |-> "map[string]interface {}", m |-> m]
GoMapSS(m) == [k |-> "map[string]string", m |-> m]
GoMapII(m) == [k |-> "map[interface {}]interface {}", m |-> m]
GoStrings(e) == [k |-> "[]string", e |-> e]
GoMaps(e) == [k |-> "[]map[string]string", e |-> e]
GoList(e) == [k |-> "[]interface {}", e |-> e]
\* the nil map[string]interface{} a declared and never assigned variable holds
GoNil == [k |-> "nil"]

GoMapKinds == {"map[string]interface {}", "map[string]string",
               "map[interface {}]interface {}"}
GoSeqKinds == {"[]string", "[]map[string]string", "[]interface {}"}

\* a file of zero bytes
EmptyBytes == [k |-> "bytes0"]
\* no file, no document
NoDoc == [k |-> "none"]

YStr(s) == [k |-> "str", s |-> s]

\* an encoder that writes the quotes it puts around a string into the string
RECURSIVE MarshalRequoting(_)
MarshalRequoting(v) ==
    CASE v.k \in GoMapKinds ->
            [k |-> "map", m |-> [f \in DOMAIN v.m |-> MarshalRequoting(v.m[f])]]
      [] v.k \in GoSeqKinds ->
            [k |-> "seq", e |-> [i \in DOMAIN v.e |-> MarshalRequoting(v.e[i])]]
      [] v.k = "string" -> [k |-> "str", s |-> "'" \o v.s \o "'"]
      [] v.k = "bool" -> [k |-> "bool", b |-> v.b]
      [] v.k = "int" -> [k |-> "int", n |-> v.n]
      [] v.k = "nil" -> [k |-> "map", m |-> <<>>]

\* yaml.Marshal: the document of a Go value; the Go types are erased, a nil
\* map is written as the empty mapping "{}"
RECURSIVE Marshal(_)
Marshal(v) ==
    CASE v.k \in GoMapKinds -> [k |-> "map", m |-> [f \in DOMAIN v.m |-> Marshal(v.m[f])]]
      [] v.k \in GoSeqKinds -> [k |-> "seq", e |-> [i \in DOMAIN v.e |-> Marshal(v.e[i])]]
      [] v.k = "string" -> [k |-> "str", s |-> v.s]
      [] v.k = "bool" -> [k |-> "bool", b |-> v.b]
      [] v.k = "int" -> [k |-> "int", n |-> v.n]
      [] v.k = "nil" -> [k |-> "map", m |-> <<>>]

\* a decoder that makes a mapping a map[string]interface{}, as yaml.v3 does
RECURSIVE LooseStringKeyed(_)
LooseStringKeyed(y) ==
    CASE y.k = "map" -> GoMapSI([f \in DOMAIN y.m |-> LooseStringKeyed(y.m[f])])
      [] y.k = "seq" -> GoList([i \in DOMAIN y.e |-> LooseStringKeyed(y.e[i])])
      [] y.k = "str" -> GoStr(y.s)
      [] y.k = "bool" -> GoBool(y.b)
      [] y.k = "int" -> GoInt(y.n)

\* yaml.v2 decoding of a node into interface{}: a mapping becomes a
\* map[interface{}]interface{}, a sequence a []interface{}
RECURSIVE Loose(_)
Loose(y) ==
    CASE y.k = "map" -> GoMapII([f \in DOMAIN y.m |-> Loose(y.m[f])])
      [] y.k = "seq" -> GoList([i \in DOMAIN y.e |-> Loose(y.e[i])])
      [] y.k = "str" -> GoStr(y.s)
      [] y.k = "bool" -> GoBool(y.b)
      [] y.k = "int" -> GoInt(y.n)

\* yaml.Unmarshal(fileContent, &instance) with instance a nil
\* map[string]interface{}: zero bytes leave it nil, a mapping fills it, any
\* other document is an error
Unmarshal(bytes) ==
    CASE bytes.k = "bytes0" -> [err |-> FALSE, v |-> GoNil]
      [] bytes.k = "map" ->
            [err |-> FALSE, v |-> GoMapSI([f \in DOMAIN bytes.m |-> Loose(bytes.m[f])])]
      [] OTHER -> [err |-> TRUE, v |-> GoNil]

\* v[key] with the type assertion .(map[interface{}]interface{}): ok is false
\* for a nil map, a missing key or a value of another type
AssertMapII(v, key) ==
    /\ v.k \in GoMapKinds
    /\ key \in DOMAIN v.m
    /\ v.m[key].k = "map[interface {}]interface {}"


(***************************************************************************)
(* Manifest construction and the resize mutation.                          *)
(***************************************************************************)
ProviderConfigRef == GoMapSS([name |-> GoStr("provider-openstack-config")])

\* the list taken as it came
SecurityGroupsAsSupplied(sgs) == sgs

\* createVM: an empty security-group list is replaced by ["default"]
DefaultSecurityGroups(sgs) == IF Len(sgs) = 0 THEN <<"default">> ELSE sgs

\* createVM: instanceYAML
InstanceManifest(team, name, image, flavor, network, sgs) ==
    GoMapSI([
        apiVersion |-> GoStr("compute.openstack.crossplane.io/v1alpha1"),
        kind |-> GoStr("InstanceV2"),
        metadata |-> GoMapSS([name |-> GoStr(name), namespace |-> GoStr(team)]),
        spec |-> GoMapSI([
            forProvider |-> GoMapSI([
                configDrive |-> GoBool(TRUE),
                flavorId |-> GoStr(flavor),
                imageId |-> GoStr(image),
                name |-> GoStr(name),
                network |-> GoMaps(<<GoMapSS([uuid |-> GoStr(network)])>>),
                securityGroups |->
                    GoStrings([i \in DOMAIN DefaultSecurityGroups(sgs) |->
                                   GoStr(DefaultSecurityGroups(sgs)[i])])]),
            providerConfigRef |-> ProviderConfigRef])])

\* registerTeam: namespaceYAML
NamespaceManifest(name) ==
    GoMapSI([
        apiVersion |-> GoStr("v1"),
        kind |-> GoStr("Namespace"),
        metadata |-> GoMapSS([name |-> GoStr(name)])])

\* attachDisk: volumeAttachment
AttachmentManifest(team, attachmentName, instanceId, volumeId) ==
    GoMapSI([
        apiVersion |-> GoStr("compute.openstack.crossplane.io/v1alpha1"),
        kind |-> GoStr("VolumeAttachmentV2"),
        metadata |-> GoMapSS([name |-> GoStr(attachmentName), namespace |-> GoStr(team)]),
        spec |-> GoMapSI([
            instanceId |-> GoStr(instanceId),
            volumeId |-> GoStr(volumeId),
            providerConfigRef |-> ProviderConfigRef,
            deletionPolicy |-> GoStr("Delete")])])

\* createBlockVolume: volumeManifest
VolumeManifest(team, name, size, description) ==
    GoMapSI([
        apiVersion |-> GoStr("blockstorage.openstack.crossplane.io/v1alpha1"),
        kind |-> GoStr("VolumeV3"),
        metadata |-> GoMapSS([name |-> GoStr(name), namespace |-> GoStr(team)]),
        spec |-> GoMapSI([
            forProvider |-> GoMapSI([
                name |-> GoStr(name),
                size |-> GoInt(size),
                description |-> GoStr(description)]),
            providerConfigRef |-> ProviderConfigRef])])

\* resizeVM: whether both type assertions on the loaded manifest succeed
HasForProvider(instance) ==
    /\ AssertMapII(instance, "spec")
    /\ AssertMapII(instance.m["spec"], "forProvider")

\* the handler without its assignment
SetFlavorKept(instance, flavor) == instance

\* resizeVM: forProvider["flavorId"] = data.FlavorID inside the two type
\* assertions; when either fails the manifest is left as loaded
SetFlavor(instance, flavor) ==
    IF HasForProvider(instance)
    THEN [instance EXCEPT !.m["spec"].m["forProvider"].m =
                              ("flavorId" :> GoStr(flavor)) @@ @]
    ELSE instance

(***************************************************************************)
(* File names.                                                             *)
(***************************************************************************)
ManifestDir == "/home/ubuntu/crossplane-api"
\* os.TempDir() with TMPDIR unset
TempDir == "/tmp"

\* the elements of a path between its separators, from position i on; cur is
\* the element being read
RECURSIVE SplitFrom(_, _, _)
SplitFrom(path, i, cur) ==
    IF i > Len(path) THEN <<cur>>
    ELSE IF SubSeq(path, i, i) = "/" THEN <<cur>> \o SplitFrom(path, i + 1, "")
    ELSE SplitFrom(path, i + 1, cur \o SubSeq(path, i, i))

\* filepath.Clean of a rooted path, element by element: empty elements and
\* "." are dropped, ".." removes the element before it and is dropped at
\* the root
RECURSIVE Resolve(_, _)
Resolve(elems, kept) ==
    IF elems = <<>> THEN kept
    ELSE Resolve(Tail(elems),
                 CASE Head(elems) \in {"", "."} -> kept
                   [] Head(elems) = ".." ->
                         IF kept = <<>> THEN kept ELSE SubSeq(kept, 1, Len(kept) - 1)
                   [] OTHER -> Append(kept, Head(elems)))

RECURSIVE Rooted(_)
Rooted(elems) ==
    IF elems = <<>> THEN "" ELSE "/" \o Head(elems) \o Rooted(Tail(elems))

Clean(path) ==
    IF Resolve(SplitFrom(path, 1, ""), <<>>) = <<>> THEN "/"
    ELSE Rooted(Resolve(SplitFrom(path, 1, ""), <<>>))

\* filepath.Join(dir, elem) for a rooted dir: the elements are joined with a
\* separator and the result is cleaned
Join(dir, elem) == Clean(dir \o "/" \o elem)

\* createVM and resizeVM: yamlPath
VMPath(team, name) == Join(ManifestDir, team \o "-" \o name \o ".yaml")
\* registerTeam: filename
NamespacePath(name) == Join(TempDir, "namespace-" \o name \o ".yaml")
\* createBlockVolume: tmpFile
BlockPath(name) == Join(TempDir, name \o "-block.yaml")
\* attachDisk: yamlPath
AttachPath(attachmentName) == Join(TempDir, attachmentName \o ".yaml")

HexDigits == "0123456789abcdef"

\* fmt.Sprintf("%x", n) for n >= 0
RECURSIVE Hex(_)
Hex(n) ==
    IF n < 16 THEN SubSeq(HexDigits, n + 1, n + 1)
    ELSE Hex(n \div 16) \o SubSeq(HexDigits, (n % 16) + 1, (n % 16) + 1)

\* the slice expression s[:n] panics when n exceeds len(s)
SlicePanics(s, n) == n > Len(s)
SlicePrefix(s, n) == SubSeq(s, 1, n)

\* attachDisk: nameSuffix[:8]
SuffixLen == 8
\* attachDisk: attachmentName
AttachmentName(vm, p) == vm \o "-attach-" \o SlicePrefix(Hex(p), SuffixLen)

\* process ids the server may run under: a usual one and one whose
\* hexadecimal form has eight digits
Pids == {4242, 268435456}

(***************************************************************************)
(* The status query of handleVMAction.                                     *)
(***************************************************************************)
TaskStateKey == "OS-EXT-STS:task_state"
JNull == [k |-> "jnull"]
JString(s) == [k |-> "jstring", s |-> s]
JObject(m) == [k |-> "jobject", m |-> m]
JArray == [k |-> "jarray"]
Garbage == [k |-> "garbage"]

\* a query answered from the snapshot taken when the server was idle
StatusResultsCached(live) ==
    {[exit |-> 0, out |-> [k |-> "jobject", m |-> <<>>]]}

\* what "openstack server show <vm> -f json" can answer when the live
\* task state is live: a non-zero exit, or on exit 0 text that is no JSON,
\* JSON that is no object, or the server's fields; an idle server's task
\* state is printed as null, as "" or not at all
StatusResults(live) ==
    {[exit |-> 1, out |-> Garbage]}
    \cup {[exit |-> 0, out |-> o] : o \in {Garbage, JArray, JNull}}
    \cup (IF live = ""
          THEN {[exit |-> 0, out |-> JObject(<<>>)],
                [exit |-> 0, out |-> JObject(TaskStateKey :> JNull)],
                [exit |-> 0, out |-> JObject(TaskStateKey :> JString(""))]}
          ELSE {[exit |-> 0, out |-> JObject(TaskStateKey :> JString(live))]})

\* a decoder that drops the error and leaves the map as it is
JsonUnmarshalLenient(out) ==
    CASE out.k = "jobject" ->
            [err |-> FALSE,
             v |-> GoMapSI([f \in DOMAIN out.m |->
                               IF out.m[f].k = "jstring" THEN GoStr(out.m[f].s) ELSE GoNil])]
      [] OTHER -> [err |-> FALSE, v |-> GoNil]

\* json.Unmarshal(statusOut.Bytes(), &statusData): an object fills the map,
\* the literal null leaves it nil, anything else is an error
JsonUnmarshal(out) ==
    CASE out.k = "jobject" ->
            [err |-> FALSE,
             v |-> GoMapSI([f \in DOMAIN out.m |->
                               IF out.m[f].k = "jstring" THEN GoStr(out.m[f].s) ELSE GoNil])]
      [] out.k = "jnull" -> [err |-> FALSE, v |-> GoNil]
      [] OTHER -> [err |-> TRUE, v |-> GoNil]

\* the same test reading the field under the name "task_state"
IsBusyWrongKey(statusData) ==
    /\ statusData.k \in GoMapKinds
    /\ "task_state" \in DOMAIN statusData.m
    /\ statusData.m["task_state"].k = "string"
    /\ statusData.m["task_state"].s # ""

\* handleVMAction: taskState, ok := statusData[key].(string); ok && taskState != ""
IsBusy(statusData) ==
    /\ statusData.k \in GoMapKinds
    /\ TaskStateKey \in DOMAIN statusData.m
    /\ statusData.m[TaskStateKey].k = "string"
    /\ statusData.m[TaskStateKey].s # ""

\* the task state a server is in once the provider has accepted an action
\* command: powering on or off; kubectl delete returns when the resource is
\* gone, which leaves no transition in progress
TransitionOf(action, live) ==
    CASE action = "start" -> "powering-on"
      [] action = "stop" -> "powering-off"
      [] OTHER -> live


(***************************************************************************)
(* State.                                                                  *)
(***************************************************************************)
VARIABLES
    files,      \* the file system: path -> content, for the files that exist
    taskState,  \* the provider's live task state of each server, "" when idle
    req,        \* per goroutine: the request it serves and how far it got
    nreq,       \* requests accepted so far
    pid,        \* os.Getpid()
    serial,     \* whether the client sends a request only after the last returned
    applied,    \* history: path -> the document of the last apply that succeeded
    created,    \* history: path -> the document of the last successful createVM
    resized     \* history: path -> flavor, file and submitted document of the
                \*          last successful resizeVM

vars == <<files, taskState, req, nreq, pid, serial, applied, created, resized>>

\* status 0 is "no response written": the request is in flight, or at pc
\* "done" its handler panicked and net/http dropped the connection
\* Fields that record what happened rather than what the handler holds:
\*   sgs        createVM: the securityGroups of the request body
\*   replicas   scaleVM: the replicas of the request body
\*   cmd        scaleVM: the kubectl scale command that was run
\*   missing    a required field of the request was absent or empty, or the
\*              body was no JSON of the expected shape
\*   existed    resizeVM: whether the manifest file existed when it was looked up
\*   loaded     resizeVM: the bytes ioutil.ReadFile returned
\*   seen       handleVMAction: what the status query answered
\*   asked      handleVMAction: the server's task state when the query was run
\*   live       the server's task state when the command or apply was run
\*   submitted  the document kubectl apply read
\*   prev       resizeVM: the entry of resized when its apply succeeded
\*   nq, ncmd, nopen, nwrite, napply   status queries, action commands, file
\*              truncations, file writes and kubectl apply runs so far
NoResult == [exit |-> -1, out |-> [k |-> "none"]]

IdleReq ==
    [pc |-> "idle", kind |-> "none", team |-> "", name |-> "", arg |-> "",
     sgs |-> <<>>, replicas |-> [nil |-> TRUE], cmd |-> [verb |-> "none"],
     missing |-> FALSE, existed |-> FALSE, path |-> "", temp |-> FALSE,
     doc |-> NoDoc, loaded |-> NoDoc, seen |-> NoResult, asked |-> "none",
     live |-> "none",
     submitted |-> NoDoc, prev |-> NoDoc,
     nq |-> 0, ncmd |-> 0, nopen |-> 0, nwrite |-> 0, napply |-> 0, status |-> 0]

Without(f, p) == [q \in DOMAIN f \ {p} |-> f[q]]
Exists(p) == p \in DOMAIN files

\* a goroutine takes the next request; goroutines are interchangeable, the
\* lowest idle one is used
IsFree(w) ==
    /\ nreq < (IF serial THEN MaxSerialRequests ELSE MaxRequests)
    /\ serial => \A v \in Workers : req[v].pc = "idle"
    /\ req[w].pc = "idle"
    /\ \A v \in Workers : v < w => req[v].pc # "idle"

Accept(w, r) ==
    /\ req' = [req EXCEPT ![w] = r]
    /\ nreq' = nreq + 1

New(kind, team, name, arg) ==
    [IdleReq EXCEPT !.kind = kind, !.team = team, !.name = name, !.arg = arg]

\* http.Error(w, ..., status) without the return
RespondAndGoOn(r, status) == [r EXCEPT !.status = status]

\* http.Error(w, ..., status); return
Respond(r, status) == [r EXCEPT !.pc = "done", !.status = status]

\* defer os.Remove(path), run when the handler returns
AfterDefer(r) == IF r.temp THEN Without(files, r.path) ELSE files

\* the server has started: no manifest written yet, no request accepted
Boot(pids, oneByOne) ==
    /\ files = <<>>
    /\ taskState = [v \in VMNames |-> ""]
    /\ req = [w \in Workers |-> IdleReq]
    /\ nreq = 0
    /\ pid \in pids
    /\ serial = oneByOne
    /\ applied = <<>>
    /\ created = <<>>
    /\ resized = <<>>

Init == Boot(Pids, FALSE)

\* the process id is read by attachDisk alone; without that route one will do
InitUsualPid == Boot({4242}, FALSE)

\* requests sent one after another
InitSerial == Boot({4242}, TRUE)
InitSerialAnyPid == Boot(Pids, TRUE)

\* the server after a createVM request for vm1 of team a has succeeded and
\* returned: its manifest is on disk and was the last one applied
InitWithManifest ==
    \E flavor \in Flavors :
        LET f == VMPath("a", "vm1")
            y == Marshal(InstanceManifest("a", "vm1", "img1", flavor, "net1", <<>>))
        IN
        /\ files = f :> y
        /\ taskState = [v \in VMNames |-> ""]
        /\ req = [w \in Workers |-> IdleReq]
        /\ nreq = 0
        /\ pid = 4242
        /\ serial = FALSE
        /\ applied = f :> y
        /\ created = f :> y
        /\ resized = <<>>

(***************************************************************************)
(* applyYAML, and the same three calls inlined in createBlockVolume.       *)
(***************************************************************************)
\* kubectl apply -f accepts only a document that names its apiVersion and kind
ApplyAccepts(bytes) ==
    /\ bytes.k = "map"
    /\ {"apiVersion", "kind"} \subseteq DOMAIN bytes.m

\* ioutil.WriteFile opens the file with O_CREATE|O_TRUNC ...
ApplyOpen(w) ==
    /\ req[w].pc = "open"
    /\ files' = (req[w].path :> EmptyBytes) @@ files
    /\ req' = [req EXCEPT ![w].pc = "write", ![w].nopen = @ + 1]
    /\ UNCHANGED <<taskState, nreq, pid, serial, applied, created, resized>>

\* ... or fails to, and applyYAML returns the error
ApplyOpenFails(w) ==
    /\ req[w].pc = "open"
    /\ files' = AfterDefer(req[w])
    /\ req' = [req EXCEPT ![w] = Respond(@, 500)]
    /\ UNCHANGED <<taskState, nreq, pid, serial, applied, created, resized>>

\* ... and then writes the marshalled manifest through the open descriptor;
\* a file unlinked in between stays unlinked
ApplyWrite(w) ==
    LET r == req[w] IN
    /\ r.pc = "write"
    /\ files' = IF Exists(r.path) THEN [files EXCEPT ![r.path] = Marshal(r.doc)] ELSE files
    /\ req' = [req EXCEPT ![w].pc = "apply", ![w].nwrite = @ + 1]
    /\ created' = IF r.kind = "createVM" /\ r.path \in DOMAIN created
                  THEN Without(created, r.path) ELSE created
    /\ resized' = IF /\ r.path \in DOMAIN resized
                     /\ ~(r.kind = "resizeVM" /\ r.arg = resized[r.path].flavor)
                  THEN Without(resized, r.path) ELSE resized
    /\ UNCHANGED <<taskState, nreq, pid, serial, applied>>

LiveOf(r) == IF r.kind = "resizeVM" /\ r.name \in VMNames THEN taskState[r.name] ELSE "none"
Submitted(r) == IF Exists(r.path) THEN files[r.path] ELSE NoDoc

\* kubectl apply -f reads the file and exits 0
ApplyRun(w) ==
    LET r == req[w] IN
    /\ r.pc = "apply"
    /\ Exists(r.path)
    /\ ApplyAccepts(files[r.path])
    /\ req' = [req EXCEPT ![w] =
                  [Respond(r, 200) EXCEPT !.napply = @ + 1, !.submitted = Submitted(r),
                                          !.live = LiveOf(r),
                                          !.prev = IF r.path \in DOMAIN resized
                                                   THEN resized[r.path] ELSE NoDoc]]
    /\ files' = AfterDefer(r)
    /\ applied' = IF r.temp THEN applied ELSE (r.path :> files[r.path]) @@ applied
    /\ created' = IF r.kind = "createVM"
                  THEN (r.path :> files[r.path]) @@ created ELSE created
    /\ resized' = IF r.kind = "resizeVM"
                  THEN (r.path :> [flavor |-> r.arg, doc |-> files[r.path],
                                   submitted |-> files[r.path]]) @@ resized
                  ELSE resized
    /\ UNCHANGED <<taskState, nreq, pid, serial>>

\* kubectl apply -f exits non-zero (always so for a missing file or a document
\* it cannot accept)
ApplyRunFails(w) ==
    LET r == req[w] IN
    /\ r.pc = "apply"
    /\ req' = [req EXCEPT ![w] =
                  [Respond(r, 500) EXCEPT !.napply = @ + 1, !.submitted = Submitted(r),
                                          !.live = LiveOf(r)]]
    /\ files' = AfterDefer(r)
    /\ UNCHANGED <<taskState, nreq, pid, serial, applied, created, resized>>

(***************************************************************************)
(* Request bodies.  A body either fails to decode into the handler's       *)
(* struct or yields its fields, "" (0 for a number) for an absent one.     *)
(***************************************************************************)
Images == {"img1"}
Networks == {"net1"}
SecurityGroupLists == {<<>>, <<"sg1">>}
VolumeIds == {"vol1"}
InstanceIds == {"i1"}
VolumeNames == {"vol"}
Sizes == {0, 10}

Blank(S) == S \cup {""}

\* some field of fields, the required ones, is absent or empty
AnyBlank(fields) == \E i \in DOMAIN fields : fields[i] = ""

(***************************************************************************)
(* registerTeam                                                            *)
(***************************************************************************)
\* the names a body of registerTeam carries: a tenant's, and one that leads
\* from the scratch directory to a VM's manifest
TeamNames == Teams \cup {"x/../../home/ubuntu/crossplane-api/a-vm1"}

\* registerTeam's test of the decoded body
RegisterTeamInvalid(name) == name = ""

RegisterTeamRejected(w) ==
    /\ IsFree(w)
    /\ \E name \in Blank(TeamNames), decoded \in BOOLEAN :
          /\ ~decoded \/ RegisterTeamInvalid(name)
          /\ Accept(w, [Respond(New("registerTeam", "", "", ""), 400) EXCEPT
                           !.missing = ~decoded \/ AnyBlank(<<name>>)])
    /\ UNCHANGED <<files, taskState, pid, serial, applied, created, resized>>

RegisterTeamAccepted(w) ==
    /\ IsFree(w)
    /\ \E name \in Blank(TeamNames) :
          /\ ~RegisterTeamInvalid(name)
          /\ Accept(w, [New("registerTeam", name, "", "") EXCEPT
                           !.missing = AnyBlank(<<name>>),
                           !.pc = "open", !.temp = TRUE,
                           !.path = NamespacePath(name), !.doc = NamespaceManifest(name)])
    /\ UNCHANGED <<files, taskState, pid, serial, applied, created, resized>>

(***************************************************************************)
(* createVM                                                                *)
(***************************************************************************)
\* the test without the network id
CreateVMInvalidNoNetwork(name, image, flavor, network) ==
    name = "" \/ image = "" \/ flavor = ""

\* createVM's test of the decoded body
CreateVMInvalid(name, image, flavor, network) ==
    name = "" \/ image = "" \/ flavor = "" \/ network = ""

CreateVMRejected(w) ==
    /\ IsFree(w)
    /\ \E team \in Teams, name \in Blank(VMNames), image \in Blank(Images),
          flavor \in Blank(Flavors), network \in Blank(Networks), decoded \in BOOLEAN :
          /\ ~decoded \/ CreateVMInvalid(name, image, flavor, network)
          /\ Accept(w, [Respond(New("createVM", team, "", ""), 400) EXCEPT
                           !.missing = ~decoded \/ AnyBlank(<<name, image, flavor, network>>)])
    /\ UNCHANGED <<files, taskState, pid, serial, applied, created, resized>>

\* a valid request for a VM of one of teams with one of names
CreateVMFor(w, teams, names) ==
    /\ IsFree(w)
    /\ \E team \in teams, name \in Blank(names), image \in Blank(Images),
          flavor \in Blank(Flavors), network \in Blank(Networks),
          sgs \in SecurityGroupLists :
          /\ ~CreateVMInvalid(name, image, flavor, network)
          /\ Accept(w, [New("createVM", team, name, flavor) EXCEPT
                           !.sgs = sgs,
                           !.missing = AnyBlank(<<name, image, flavor, network>>),
                           !.pc = "open", !.path = VMPath(team, name),
                           !.doc = InstanceManifest(team, name, image, flavor,
                                                    network, sgs)])
    /\ UNCHANGED <<files, taskState, pid, serial, applied, created, resized>>

CreateVMAccepted(w) == CreateVMFor(w, Teams, VMNames)

(***************************************************************************)
(* resizeVM                                                                *)
(***************************************************************************)
\* resizeVM's test of the decoded body
ResizeInvalid(flavor) == flavor = ""

\* the lookup with its result ignored
StatNeverNotExist(path) == FALSE

\* os.Stat(yamlPath) fails with an error for which os.IsNotExist holds
StatNotExist(path) == ~Exists(path)

ResizeRejected(w) ==
    /\ IsFree(w)
    /\ \E team \in Teams, name \in VMNames, flavor \in Blank(Flavors), decoded \in BOOLEAN :
          /\ ~decoded \/ ResizeInvalid(flavor)
          /\ Accept(w, [Respond(New("resizeVM", team, name, ""), 400) EXCEPT
                           !.missing = ~decoded \/ AnyBlank(<<flavor>>)])
    /\ UNCHANGED <<files, taskState, pid, serial, applied, created, resized>>

ResizeNotFoundFor(w, teams, names) ==
    /\ IsFree(w)
    /\ \E team \in teams, name \in names, flavor \in Blank(Flavors) :
          /\ ~ResizeInvalid(flavor)
          /\ StatNotExist(VMPath(team, name))
          /\ Accept(w, [Respond(New("resizeVM", team, name, flavor), 404) EXCEPT
                           !.missing = AnyBlank(<<flavor>>),
                           !.existed = Exists(VMPath(team, name)),
                           !.path = VMPath(team, name)])
    /\ UNCHANGED <<files, taskState, pid, serial, applied, created, resized>>

ResizeNotFound(w) == ResizeNotFoundFor(w, Teams, VMNames)

ResizeStatFor(w, teams, names) ==
    /\ IsFree(w)
    /\ \E team \in teams, name \in names, flavor \in Blank(Flavors) :
          /\ ~ResizeInvalid(flavor)
          /\ ~StatNotExist(VMPath(team, name))
          /\ Accept(w, [New("resizeVM", team, name, flavor) EXCEPT
                           !.missing = AnyBlank(<<flavor>>),
                           !.existed = Exists(VMPath(team, name)),
                           !.pc = "read", !.path = VMPath(team, name)])
    /\ UNCHANGED <<files, taskState, pid, serial, applied, created, resized>>

ResizeStat(w) == ResizeStatFor(w, Teams, VMNames)

\* tenants and VM names with a hyphen in them, as Kubernetes names have
HyphenTeams == {"a", "a-b"}
HyphenNames == {"c", "b-c"}

CreateVMHyphen(w) == CreateVMFor(w, HyphenTeams, HyphenNames)
ResizeNotFoundHyphen(w) == ResizeNotFoundFor(w, HyphenTeams, HyphenNames)
ResizeStatHyphen(w) == ResizeStatFor(w, HyphenTeams, HyphenNames)

\* ioutil.ReadFile, yaml.Unmarshal and the mutation of the loaded manifest
ResizeRead(w) ==
    LET r == req[w]
        u == Unmarshal(files[r.path])
    IN
    /\ r.pc = "read"
    /\ Exists(r.path)
    /\ req' = [req EXCEPT ![w] =
                  IF u.err THEN [Respond(r, 500) EXCEPT !.loaded = files[r.path]]
                  ELSE [r EXCEPT !.pc = "open", !.loaded = files[r.path],
                                 !.doc = SetFlavor(u.v, r.arg)]]
    /\ UNCHANGED <<files, taskState, nreq, pid, serial, applied, created, resized>>

\* ioutil.ReadFile returns an error
ResizeReadFails(w) ==
    /\ req[w].pc = "read"
    /\ req' = [req EXCEPT ![w] = Respond(@, 500)]
    /\ UNCHANGED <<files, taskState, nreq, pid, serial, applied, created, resized>>

(***************************************************************************)
(* attachDisk                                                              *)
(***************************************************************************)
\* attachDisk's test of the decoded body
AttachInvalid(volumeId, instanceId) == volumeId = "" \/ instanceId = ""

AttachRejected(w) ==
    /\ IsFree(w)
    /\ \E team \in Teams, vm \in VMNames, volumeId \in Blank(VolumeIds),
          instanceId \in Blank(InstanceIds), decoded \in BOOLEAN :
          /\ ~decoded \/ AttachInvalid(volumeId, instanceId)
          /\ Accept(w, [Respond(New("attachDisk", team, vm, ""), 400) EXCEPT
                           !.missing = ~decoded \/ AnyBlank(<<volumeId, instanceId>>)])
    /\ UNCHANGED <<files, taskState, pid, serial, applied, created, resized>>

\* nameSuffix[:8] is out of range: the handler panics before it builds the
\* manifest, net/http recovers and closes the connection without a response
AttachPanics(w) ==
    /\ IsFree(w)
    /\ SlicePanics(Hex(pid), SuffixLen)
    /\ \E team \in Teams, vm \in VMNames, volumeId \in Blank(VolumeIds),
          instanceId \in Blank(InstanceIds) :
          /\ ~AttachInvalid(volumeId, instanceId)
          /\ Accept(w, [New("attachDisk", team, vm, "") EXCEPT
                           !.missing = AnyBlank(<<volumeId, instanceId>>),
                           !.pc = "done"])
    /\ UNCHANGED <<files, taskState, pid, serial, applied, created, resized>>

AttachAccepted(w) ==
    /\ IsFree(w)
    /\ ~SlicePanics(Hex(pid), SuffixLen)
    /\ \E team \in Teams, vm \in VMNames, volumeId \in Blank(VolumeIds),
          instanceId \in Blank(InstanceIds) :
          /\ ~AttachInvalid(volumeId, instanceId)
          /\ Accept(w, [New("attachDisk", team, vm, "") EXCEPT
                           !.missing = AnyBlank(<<volumeId, instanceId>>),
                           !.pc = "open", !.temp = TRUE,
                           !.path = AttachPath(AttachmentName(vm, pid)),
                           !.doc = AttachmentManifest(team, AttachmentName(vm, pid),
                                                      instanceId, volumeId)])
    /\ UNCHANGED <<files, taskState, pid, serial, applied, created, resized>>

(***************************************************************************)
(* createBlockVolume                                                       *)
(***************************************************************************)
\* createBlockVolume's test of the decoded body
BlockInvalid(name, size) == name = "" \/ size = 0

BlockRejected(w) ==
    /\ IsFree(w)
    /\ \E team \in Teams, name \in Blank(VolumeNames), size \in Sizes, decoded \in BOOLEAN :
          /\ ~decoded \/ BlockInvalid(name, size)
          /\ Accept(w, [Respond(New("createBlockVolume", team, "", ""), 400) EXCEPT
                           !.missing = ~decoded \/ name = "" \/ size = 0])
    /\ UNCHANGED <<files, taskState, pid, serial, applied, created, resized>>

\* a valid request of one of teams
BlockFor(w, teams) ==
    /\ IsFree(w)
    /\ \E team \in teams, name \in Blank(VolumeNames), size \in Sizes :
          /\ ~BlockInvalid(name, size)
          /\ Accept(w, [New("createBlockVolume", team, name, "") EXCEPT
                           !.missing = (name = "" \/ size = 0),
                           !.pc = "open", !.temp = TRUE,
                           !.path = BlockPath(name),
                           !.doc = VolumeManifest(team, name, size, "")])
    /\ UNCHANGED <<files, taskState, pid, serial, applied, created, resized>>

BlockAccepted(w) == BlockFor(w, Teams)

\* two tenants
Tenants == {"a", "b"}

BlockOfTenants(w) == BlockFor(w, Tenants)

(***************************************************************************)
(* handleVMAction                                                          *)
(***************************************************************************)
\* the handler without its task-state test
ActionOutcomeUnguarded(action, result) ==
    IF result.exit # 0 THEN 500
    ELSE IF JsonUnmarshal(result.out).err THEN 500
    ELSE IF action \notin {"start", "stop", "delete"} THEN 400
    ELSE 0

\* the response the handler settles on before it runs any action command,
\* 0 when it goes on to run one
ActionOutcome(action, result) ==
    IF result.exit # 0 THEN 500
    ELSE IF JsonUnmarshal(result.out).err THEN 500
    ELSE IF IsBusy(JsonUnmarshal(result.out).v) THEN 409
    ELSE IF action \notin {"start", "stop", "delete"} THEN 400
    ELSE 0

\* the status query and every check up to the switch: the request is refused
ActionRefused(w) ==
    /\ IsFree(w)
    /\ \E team \in Teams, vm \in VMNames, action \in Actions :
       \E result \in StatusResults(taskState[vm]) :
          /\ ActionOutcome(action, result) # 0
          /\ Accept(w, [Respond(New("handleVMAction", team, vm, action),
                                ActionOutcome(action, result))
                           EXCEPT !.nq = 1, !.seen = result, !.asked = taskState[vm]])
    /\ UNCHANGED <<files, taskState, pid, serial, applied, created, resized>>

\* ... or the request passes them
ActionChecked(w) ==
    /\ IsFree(w)
    /\ \E team \in Teams, vm \in VMNames, action \in Actions :
       \E result \in StatusResults(taskState[vm]) :
          /\ ActionOutcome(action, result) = 0
          /\ Accept(w, [New("handleVMAction", team, vm, action) EXCEPT
                           !.pc = "run", !.nq = 1, !.seen = result,
                           !.asked = taskState[vm]])
    /\ UNCHANGED <<files, taskState, pid, serial, applied, created, resized>>

\* the command held back while the server is in a transition
ActionRunExclusive(w) ==
    LET r == req[w] IN
    /\ r.pc = "run"
    /\ taskState[r.name] = ""
    /\ req' = [req EXCEPT ![w] =
                  [Respond(r, 200) EXCEPT !.ncmd = @ + 1, !.live = taskState[r.name]]]
    /\ taskState' = [taskState EXCEPT ![r.name] = TransitionOf(r.arg, @)]
    /\ UNCHANGED <<files, nreq, pid, serial, applied, created, resized>>

\* cmd.Run() of the action command exits 0: the provider starts the transition
ActionRun(w) ==
    LET r == req[w] IN
    /\ r.pc = "run"
    /\ req' = [req EXCEPT ![w] =
                  [Respond(r, 200) EXCEPT !.ncmd = @ + 1, !.live = taskState[r.name]]]
    /\ taskState' = [taskState EXCEPT ![r.name] = TransitionOf(r.arg, @)]
    /\ UNCHANGED <<files, nreq, pid, serial, applied, created, resized>>

ActionRunFails(w) ==
    LET r == req[w] IN
    /\ r.pc = "run"
    /\ req' = [req EXCEPT ![w] =
                  [Respond(r, 500) EXCEPT !.ncmd = @ + 1, !.live = taskState[r.name]]]
    /\ UNCHANGED <<files, taskState, nreq, pid, serial, applied, created, resized>>

(***************************************************************************)
(* deleteVM                                                                *)
(***************************************************************************)
DeleteVM(w) ==
    /\ IsFree(w)
    /\ \E team \in Teams, vm \in VMNames :
          Accept(w, [Respond(New("deleteVM", team, vm, "delete"), 200) EXCEPT
                        !.ncmd = 1, !.live = taskState[vm]])
    /\ UNCHANGED <<files, taskState, pid, serial, applied, created, resized>>

DeleteVMFails(w) ==
    /\ IsFree(w)
    /\ \E team \in Teams, vm \in VMNames :
          Accept(w, [Respond(New("deleteVM", team, vm, "delete"), 500) EXCEPT
                        !.ncmd = 1, !.live = taskState[vm]])
    /\ UNCHANGED <<files, taskState, pid, serial, applied, created, resized>>

(***************************************************************************)
(* scaleVM                                                                 *)
(***************************************************************************)
\* data.Replicas is a *int: nil for an absent or null field
NilInt == [nil |-> TRUE]
IntPtr(n) == [nil |-> FALSE, n |-> n]
ReplicaCounts == {0, 3}
Replicas == {NilInt} \cup {IntPtr(n) : n \in ReplicaCounts}

NoCmd == [verb |-> "none"]
\* kubectl scale deployment/<resource> --replicas=<n> -n <team>
ScaleCmd(resource, n, team) ==
    [verb |-> "scale", target |-> "deployment/" \o resource, replicas |-> n, ns |-> team]

\* the test that takes a zero count for an absent one
ScaleInvalidZero(replicas) == IF replicas.nil THEN TRUE ELSE replicas.n = 0

\* scaleVM's test of the decoded body
ScaleInvalid(replicas) == replicas.nil

ScaleRejected(w) ==
    /\ IsFree(w)
    /\ \E team \in Teams, resource \in VMNames, replicas \in Replicas, decoded \in BOOLEAN :
          /\ ~decoded \/ ScaleInvalid(replicas)
          /\ Accept(w, [Respond(New("scaleVM", team, resource, ""), 400) EXCEPT
                           !.replicas = replicas,
                           !.missing = ~decoded \/ replicas.nil])
    /\ UNCHANGED <<files, taskState, pid, serial, applied, created, resized>>

\* the scale command is run and exits 0 ...
ScaleVM(w) ==
    /\ IsFree(w)
    /\ \E team \in Teams, resource \in VMNames, replicas \in Replicas :
          /\ ~ScaleInvalid(replicas)
          /\ Accept(w, [Respond(New("scaleVM", team, resource, ""), 200) EXCEPT
                           !.replicas = replicas,
                           !.missing = replicas.nil,
                           !.ncmd = 1,
                           !.cmd = ScaleCmd(resource, replicas.n, team)])
    /\ UNCHANGED <<files, taskState, pid, serial, applied, created, resized>>

\* ... or exits non-zero
ScaleVMFails(w) ==
    /\ IsFree(w)
    /\ \E team \in Teams, resource \in VMNames, replicas \in Replicas :
          /\ ~ScaleInvalid(replicas)
          /\ Accept(w, [Respond(New("scaleVM", team, resource, ""), 500) EXCEPT
                           !.replicas = replicas,
                           !.missing = replicas.nil,
                           !.ncmd = 1,
                           !.cmd = ScaleCmd(resource, replicas.n, team)])
    /\ UNCHANGED <<files, taskState, pid, serial, applied, created, resized>>

(***************************************************************************)
(* The provider and the HTTP server.                                       *)
(***************************************************************************)
\* the provider completes a server's transition
Settle(v) ==
    /\ taskState[v] # ""
    /\ taskState' = [taskState EXCEPT ![v] = ""]
    /\ UNCHANGED <<files, req, nreq, pid, serial, applied, created, resized>>

\* the handler has returned and the goroutine ends
Return(w) ==
    /\ req[w].pc = "done"
    /\ req' = [req EXCEPT ![w] = IdleReq]
    /\ UNCHANGED <<files, taskState, nreq, pid, serial, applied, created, resized>>

(***************************************************************************)
(* Specifications.                                                         *)
(***************************************************************************)
ArriveManifest(w) ==
    \/ CreateVMRejected(w) \/ CreateVMAccepted(w)
    \/ ResizeRejected(w) \/ ResizeNotFound(w) \/ ResizeStat(w)

ArriveTransient(w) ==
    \/ RegisterTeamRejected(w) \/ RegisterTeamAccepted(w)
    \/ AttachRejected(w) \/ AttachPanics(w) \/ AttachAccepted(w)
    \/ BlockRejected(w) \/ BlockAccepted(w)

ArriveAction(w) ==
    \/ ActionRefused(w) \/ ActionChecked(w)
    \/ DeleteVM(w) \/ DeleteVMFails(w)

ArriveScale(w) == ScaleRejected(w) \/ ScaleVM(w) \/ ScaleVMFails(w)

StepApply(w) ==
    \/ ApplyOpen(w) \/ ApplyOpenFails(w) \/ ApplyWrite(w)
    \/ ApplyRun(w) \/ ApplyRunFails(w)

StepResize(w) == ResizeRead(w) \/ ResizeReadFails(w)

StepAction(w) == ActionRun(w) \/ ActionRunFails(w)

\* every handler, served concurrently
Next ==
    \/ \E w \in Workers :
          \/ ArriveManifest(w) \/ ArriveTransient(w) \/ ArriveAction(w)
          \/ ArriveScale(w)
          \/ StepApply(w) \/ StepResize(w) \/ StepAction(w)
          \/ Return(w)
    \/ \E v \in VMNames : Settle(v)

Spec == Init /\ [][Next]_vars

\* the routes that act on a running server
NextAction ==
    \/ \E w \in Workers : ArriveAction(w) \/ StepAction(w) \/ Return(w)
    \/ \E v \in VMNames : Settle(v)

SpecAction == InitUsualPid /\ [][NextAction]_vars

\* every route that changes a named VM, and createVM, which resizeVM needs,
\* with well-formed requests
NextMutate ==
    \/ \E w \in Workers :
          \/ ArriveAction(w) \/ StepAction(w)
          \/ CreateVMAccepted(w) \/ ResizeNotFound(w) \/ ResizeStat(w)
          \/ StepApply(w) \/ StepResize(w)
          \/ Return(w)
    \/ \E v \in VMNames : Settle(v)

SpecMutate == InitUsualPid /\ [][NextMutate]_vars

\* the routes that keep a manifest file: createVM and resizeVM
NextManifest ==
    \E w \in Workers :
        ArriveManifest(w) \/ StepApply(w) \/ StepResize(w) \/ Return(w)

SpecManifest == InitUsualPid /\ [][NextManifest]_vars

\* createVM and resizeVM requests sent one after another
SpecSerial == InitSerial /\ [][NextManifest]_vars

\* the scale route, next to requests that write and apply a manifest
NextScale ==
    \E w \in Workers :
        ArriveScale(w) \/ CreateVMAccepted(w) \/ StepApply(w) \/ Return(w)

SpecScale == InitUsualPid /\ [][NextScale]_vars

\* every handler, with requests sent one after another
SpecOneByOne == InitSerialAnyPid /\ [][Next]_vars

\* resize requests served concurrently on a manifest that exists
NextResize ==
    \E w \in Workers :
        ResizeStat(w) \/ StepResize(w) \/ StepApply(w) \/ Return(w)

SpecResize == InitWithManifest /\ [][NextResize]_vars

\* createVM and resizeVM requests for resources with hyphens in their
\* names, sent one after another
NextHyphen ==
    \E w \in Workers :
        \/ CreateVMHyphen(w) \/ ResizeNotFoundHyphen(w) \/ ResizeStatHyphen(w)
        \/ StepResize(w) \/ StepApply(w) \/ Return(w)

SpecHyphen == InitSerial /\ [][NextHyphen]_vars

\* the routes that apply a transient file, with valid requests; volumes are
\* created by two tenants
NextTransient ==
    \E w \in Workers :
        \/ RegisterTeamAccepted(w) \/ AttachPanics(w) \/ AttachAccepted(w)
        \/ BlockOfTenants(w)
        \/ StepApply(w) \/ Return(w)

SpecTransient == Init /\ [][NextTransient]_vars

\* the creation routes
NextCreate ==
    \E w \in Workers :
        \/ CreateVMRejected(w) \/ CreateVMAccepted(w) \/ ArriveTransient(w)
        \/ StepApply(w) \/ Return(w)

SpecCreate == Init /\ [][NextCreate]_vars


(***************************************************************************)
(* Properties.                                                             *)
(***************************************************************************)
Served(w, kind) == req[w].kind = kind
Done(w) == req[w].pc = "done"

\* the answer of the status query is a snapshot whose task-state field is a
\* non-empty string
SnapshotBusy(result) ==
    /\ result.exit = 0
    /\ result.out.k = "jobject"
    /\ TaskStateKey \in DOMAIN result.out.m
    /\ result.out.m[TaskStateKey].k = "jstring"
    /\ result.out.m[TaskStateKey].s # ""

\* the status query could not be run, or its output is no JSON or JSON that
\* is no structured value (the literal null decodes without error)
QueryUnusable(result) ==
    \/ result.exit > 0
    \/ result.exit = 0 /\ result.out.k \in {"garbage", "jarray"}

\* C1: a handleVMAction request whose status query answered a snapshot with
\* a non-empty task state ends with 409 and has run no action command.
C1_BusyIsConflict ==
    \A w \in Workers :
        Served(w, "handleVMAction") /\ SnapshotBusy(req[w].seen) =>
            /\ Done(w)
            /\ req[w].status = 409
            /\ req[w].ncmd = 0

C1_Witness ==
    \E w \in Workers :
        /\ Served(w, "handleVMAction")
        /\ req[w].arg = "start"
        /\ SnapshotBusy(req[w].seen)
        /\ req[w].seen.out.m[TaskStateKey].s = "powering-on"
        /\ Done(w)
        /\ req[w].status = 409

\* C2 as claimed: no route that changes a named VM (the action route, the
\* direct DELETE, resize) runs its command or apply while the VM's live task
\* state is non-empty.
C2_NeverIssuedMidTransition ==
    \A w \in Workers :
        req[w].kind \in {"handleVMAction", "deleteVM", "resizeVM"} =>
            req[w].live \in {"none", ""}

\* C2 as amended: the action route runs its command only in a request whose
\* own single status query answered without a non-empty task state; the
\* direct DELETE and resize run theirs without any status query.
C2_IssuedOnlyAfterFreeSnapshot ==
    \A w \in Workers :
        /\ Served(w, "handleVMAction") /\ (req[w].pc = "run" \/ req[w].ncmd > 0) =>
              /\ req[w].nq = 1
              /\ req[w].seen.exit = 0
              /\ ~SnapshotBusy(req[w].seen)
        /\ req[w].kind \in {"deleteVM", "resizeVM"} => req[w].nq = 0

\* the race the amended statement leaves open: the snapshot was free, the
\* command ran while another request's transition was in progress
C2_Witness ==
    \E w \in Workers :
        /\ Served(w, "handleVMAction")
        /\ req[w].ncmd = 1
        /\ req[w].status = 200
        /\ ~SnapshotBusy(req[w].seen)
        /\ req[w].live # ""

C4_ResizeWithoutManifest ==
    \A w \in Workers :
        Served(w, "resizeVM") /\ ~req[w].missing /\ ~req[w].existed =>
            /\ Done(w)
            /\ req[w].status = 404
            /\ req[w].nopen = 0
            /\ req[w].nwrite = 0
            /\ req[w].napply = 0

C4_Witness ==
    \E w \in Workers :
        /\ Served(w, "resizeVM")
        /\ req[w].arg = "f2"
        /\ ~req[w].missing
        /\ ~req[w].existed
        /\ Done(w)
        /\ req[w].status = 404
        /\ ~Exists(VMPath(req[w].team, req[w].name))

\* the bytes hold no document with a mapping spec.forProvider
LacksForProvider(bytes) ==
    ~ /\ bytes.k = "map"
      /\ "spec" \in DOMAIN bytes.m
      /\ bytes.m["spec"].k = "map"
      /\ "forProvider" \in DOMAIN bytes.m["spec"].m
      /\ bytes.m["spec"].m["forProvider"].k = "map"

\* C5: a resize that loaded a manifest without a mapping spec.forProvider
\* does not write or apply it and does not report success; it ends with 500.
C5_MalformedManifestIsRefused ==
    \A w \in Workers :
        /\ Served(w, "resizeVM")
        /\ req[w].loaded # NoDoc
        /\ LacksForProvider(req[w].loaded)
        => /\ req[w].napply = 0
           /\ req[w].status # 200
           /\ Done(w) => req[w].status = 500

CreationKinds == {"registerTeam", "createVM", "attachDisk", "createBlockVolume"}

\* C6: a creation request with a required field absent or empty ends with
\* 400; it builds no manifest, writes no file and runs no kubectl apply.
C6_MissingFieldIsRejected ==
    \A w \in Workers :
        req[w].kind \in CreationKinds /\ req[w].missing =>
            /\ Done(w)
            /\ req[w].status = 400
            /\ req[w].doc = NoDoc
            /\ req[w].nopen = 0
            /\ req[w].nwrite = 0
            /\ req[w].napply = 0

C6_Witness ==
    \E v, w \in Workers :
        /\ Served(v, "createVM") /\ req[v].missing /\ Done(v) /\ req[v].status = 400
        /\ Served(w, "createBlockVolume") /\ req[w].missing /\ Done(w)
        /\ req[w].status = 400

NoneInFlight == \A w \in Workers : req[w].pc \in {"idle", "done"}

\* C7: whenever no request is in flight, a VM's manifest file exists exactly
\* if an apply of it has succeeded, and holds the document of the last apply
\* that succeeded.
C7_FileIsLastApplied ==
    NoneInFlight =>
        \A team \in Teams, name \in VMNames :
            /\ Exists(VMPath(team, name)) <=> VMPath(team, name) \in DOMAIN applied
            /\ Exists(VMPath(team, name)) =>
                  files[VMPath(team, name)] = applied[VMPath(team, name)]

\* the document with spec.forProvider.flavorId replaced
WithFlavor(y, flavor) ==
    [y EXCEPT !.m["spec"].m["forProvider"].m["flavorId"] = YStr(flavor)]

FlavorOf(y) == y.m["spec"].m["forProvider"].m["flavorId"].s

\* kind, namespace and name of a document
Identity(y) ==
    <<y.m["kind"].s, y.m["metadata"].m["namespace"].s, y.m["metadata"].m["name"].s>>

\* C8: once a resize to flavor f has succeeded on the manifest a successful
\* createVM stored, the file at the same path is an InstanceV2 of that tenant
\* and name, and equals the created manifest with flavorId replaced by f.
C8_ResizeRoundTrip ==
    \A w \in Workers :
        /\ Served(w, "resizeVM")
        /\ Done(w)
        /\ req[w].status = 200
        /\ req[w].path \in DOMAIN created
        => /\ Exists(req[w].path)
           /\ files[req[w].path] = WithFlavor(created[req[w].path], req[w].arg)
           /\ Identity(files[req[w].path]) = <<"InstanceV2", req[w].team, req[w].name>>

C8_Witness ==
    \E w \in Workers :
        /\ Served(w, "resizeVM")
        /\ Done(w)
        /\ req[w].status = 200
        /\ req[w].path \in DOMAIN created
        /\ FlavorOf(created[req[w].path]) = "f1"
        /\ req[w].arg = "f2"
        /\ FlavorOf(files[req[w].path]) = "f2"

\* C9: a successful resize that follows a successful resize of the same VM to
\* the same flavor leaves the file, and submits to kubectl, the very document
\* the earlier one left and submitted.
C9_ResizeIdempotent ==
    \A w \in Workers :
        /\ Served(w, "resizeVM")
        /\ Done(w)
        /\ req[w].status = 200
        /\ req[w].prev # NoDoc
        /\ req[w].prev.flavor = req[w].arg
        => /\ files[req[w].path] = req[w].prev.doc
           /\ req[w].submitted = req[w].prev.submitted

C9_Witness ==
    \E w \in Workers :
        /\ Served(w, "resizeVM")
        /\ Done(w)
        /\ req[w].status = 200
        /\ req[w].prev # NoDoc
        /\ req[w].prev.flavor = req[w].arg
        /\ req[w].arg = "f2"
        /\ FlavorOf(req[w].submitted) = "f2"

\* C10: a valid attach-disk request makes no status query, builds a
\* VolumeAttachmentV2 manifest of the tenant with the given ids, hands it to
\* applyYAML once and ends with 200 or 500 as applyYAML decides.
C10_AttachAlwaysApplies ==
    \A w \in Workers :
        Served(w, "attachDisk") /\ ~req[w].missing /\ Done(w) =>
            /\ req[w].nq = 0
            /\ req[w].status \in {200, 500}
            /\ req[w].doc # NoDoc
            /\ Marshal(req[w].doc).m["kind"].s = "VolumeAttachmentV2"
            /\ Marshal(req[w].doc).m["metadata"].m["namespace"].s = req[w].team
            /\ req[w].napply <= 1
            /\ req[w].status = 200 => req[w].napply = 1

\* the strings of spec.forProvider.securityGroups of a document
SecurityGroupsOf(y) ==
    [i \in DOMAIN y.m["spec"].m["forProvider"].m["securityGroups"].e |->
        y.m["spec"].m["forProvider"].m["securityGroups"].e[i].s]

\* what createVM promises of the manifest of request r
IsManifestOf(y, r) ==
    /\ y.k = "map"
    /\ Identity(y) = <<"InstanceV2", r.team, r.name>>
    /\ SecurityGroupsOf(y) = IF r.sgs = <<>> THEN <<"default">> ELSE r.sgs

\* C11: with requests served one after another, the manifest a valid createVM
\* request builds, the file it has written and the document its kubectl apply
\* read are one document of kind InstanceV2, namespace the tenant, name the
\* request's name and securityGroups the supplied list, ["default"] for an
\* omitted or empty one.
C11_ManifestOfRequest ==
    \A w \in Workers :
        Served(w, "createVM") /\ ~req[w].missing =>
            /\ IsManifestOf(Marshal(req[w].doc), req[w])
            /\ req[w].pc = "apply" =>
                  Exists(req[w].path) /\ files[req[w].path] = Marshal(req[w].doc)
            /\ req[w].napply > 0 => req[w].submitted = Marshal(req[w].doc)

C11_Witness ==
    \E w \in Workers :
        /\ Served(w, "createVM")
        /\ ~req[w].missing
        /\ req[w].sgs = <<>>
        /\ req[w].status = 200
        /\ req[w].napply = 1
        /\ SecurityGroupsOf(req[w].submitted) = <<"default">>
        /\ SecurityGroupsOf(files[req[w].path]) = <<"default">>

\* C12: when a register-team, attach-disk or create-block-volume request
\* returns, with 200 or with 500, the file it wrote does not exist; no step of
\* any request removes a manifest file that createVM or resize has applied.
C12_TransientRemovedPersistentKept ==
    [][/\ \A w \in Workers :
             req[w].temp /\ ~Done(w) /\ req'[w].pc = "done" =>
                 req[w].path \notin DOMAIN files'
       /\ \A f \in DOMAIN applied : Exists(f) => f \in DOMAIN files']_vars

\* C13: a scale request without a replica count ends with 400 and has run no
\* command; one with a replica count, 0 included, has run the scale command
\* once, with that count, and ends with 200 or 500; no scale request builds,
\* reads, writes or applies a manifest.
C13_ScaleIsOneCommand ==
    \A w \in Workers :
        Served(w, "scaleVM") =>
            /\ Done(w)
            /\ req[w].missing => req[w].status = 400 /\ req[w].ncmd = 0 /\ req[w].cmd = NoCmd
            /\ ~req[w].missing =>
                  /\ req[w].status \in {200, 500}
                  /\ req[w].ncmd = 1
                  /\ req[w].cmd = ScaleCmd(req[w].name, req[w].replicas.n, req[w].team)
            /\ req[w].doc = NoDoc /\ req[w].loaded = NoDoc /\ req[w].submitted = NoDoc
            /\ req[w].nopen = 0 /\ req[w].nwrite = 0 /\ req[w].napply = 0

C13_Witness ==
    \E v, w \in Workers :
        /\ Served(v, "scaleVM") /\ req[v].replicas = NilInt /\ req[v].status = 400
        /\ Served(w, "scaleVM") /\ req[w].replicas = IntPtr(0)
        /\ req[w].status = 200 /\ req[w].cmd.replicas = 0

\* the task state a status snapshot reports, "" for none
TaskOf(result) ==
    IF /\ result.out.k = "jobject"
       /\ TaskStateKey \in DOMAIN result.out.m
       /\ result.out.m[TaskStateKey].k = "jstring"
    THEN result.out.m[TaskStateKey].s
    ELSE ""

\* C14: every handleVMAction request runs the status query once, and its
\* snapshot reports the task state the server had when that request asked; a
\* request runs its action command only after a query that exited 0, parsed
\* and reported no task state; the creation requests run no status query.
C14_FreshQueryBeforeCommand ==
    \A w \in Workers :
        /\ Served(w, "handleVMAction") =>
              /\ req[w].nq = 1
              /\ req[w].seen.exit = 0 /\ req[w].seen.out.k = "jobject" =>
                    TaskOf(req[w].seen) = req[w].asked
              /\ req[w].pc = "run" \/ req[w].ncmd > 0 =>
                    /\ req[w].arg \in {"start", "stop", "delete"}
                    /\ req[w].seen.exit = 0
                    /\ req[w].seen.out.k \in {"jobject", "jnull"}
                    /\ TaskOf(req[w].seen) = ""
                    /\ req[w].ncmd <= 1
        /\ req[w].kind \in CreationKinds => req[w].nq = 0 /\ req[w].seen = NoResult

\* a later request has run its command after a snapshot of its own that
\* reports the server idle
C14_Witness ==
    \E w \in Workers :
        /\ Served(w, "handleVMAction")
        /\ nreq = MaxSerialRequests
        /\ req[w].arg = "stop"
        /\ req[w].nq = 1
        /\ req[w].asked = ""
        /\ req[w].seen.out = JObject(TaskStateKey :> JString(""))
        /\ req[w].ncmd = 1
        /\ req[w].status = 200
        /\ taskState[req[w].name] = "powering-off"

\* C15: a request runs the status query, kubectl apply and its action, scale
\* or delete command at most once each, and truncates and writes its file at
\* most once; a request that has answered with an error does nothing more:
\* its record stays as it is until the goroutine ends.
C15_ErrorsAreTerminal ==
    [][\A w \in Workers :
          /\ req'[w].nq <= 1 /\ req'[w].ncmd <= 1
          /\ req'[w].nopen <= 1 /\ req'[w].nwrite <= 1 /\ req'[w].napply <= 1
          /\ req[w].status >= 400 => req'[w] \in {req[w], IdleReq}]_vars

\* a resize has read its manifest, failed to open the file for writing, and
\* has neither written nor applied
C15_Witness ==
    \E w \in Workers :
        /\ Served(w, "resizeVM")
        /\ Done(w)
        /\ req[w].status = 500
        /\ req[w].loaded # NoDoc
        /\ req[w].doc # NoDoc
        /\ req[w].nopen = 0 /\ req[w].nwrite = 0 /\ req[w].napply = 0

\* C16: nothing orders one request's check and command against another's: a
\* request that has passed its not-busy check can run its action command
\* whatever the server's task state has become since, also right after
\* another request on the same VM has run its command.
C16_CheckThenActUnlocked ==
    \A w \in Workers :
        Served(w, "handleVMAction") /\ req[w].pc = "run" => ENABLED ActionRun(w)

\* both requests saw the server idle, both ran their command, the second
\* while the transition the first started was in progress
C16_Witness ==
    \E v, w \in Workers :
        /\ v # w
        /\ Served(v, "handleVMAction") /\ Served(w, "handleVMAction")
        /\ req[v].name = req[w].name
        /\ req[v].asked = "" /\ req[w].asked = ""
        /\ ~SnapshotBusy(req[v].seen) /\ ~SnapshotBusy(req[w].seen)
        /\ req[v].arg = "start" /\ req[v].ncmd = 1 /\ req[v].status = 200
        /\ req[v].live = ""
        /\ req[w].arg = "stop" /\ req[w].ncmd = 1 /\ req[w].status = 200
        /\ req[w].live = "powering-on"

\* C17: when two resize requests on the same manifest, the only requests so
\* far, have both completed with their kubectl apply succeeding, the file
\* holds a manifest whose flavorId is the flavor one of the two asked for and
\* is the flavorId of the document last submitted to kubectl apply.
C17_LastWriterWins ==
    \A v, w \in Workers :
        /\ v # w
        /\ nreq = 2
        /\ Served(v, "resizeVM") /\ Served(w, "resizeVM")
        /\ req[v].path = req[w].path
        /\ Done(v) /\ req[v].status = 200
        /\ Done(w) /\ req[w].status = 200
        => /\ Exists(req[v].path)
           /\ ~LacksForProvider(files[req[v].path])
           /\ FlavorOf(files[req[v].path]) \in {req[v].arg, req[w].arg}
           /\ FlavorOf(files[req[v].path]) = FlavorOf(applied[req[v].path])

\* the two overlapped: one read the manifest before the other wrote it, and
\* the later writer's flavor is in the file
C17_Witness ==
    \E v, w \in Workers :
        /\ v # w
        /\ nreq = 2
        /\ Served(v, "resizeVM") /\ Served(w, "resizeVM")
        /\ Done(v) /\ req[v].status = 200 /\ req[v].arg = "f1"
        /\ Done(w) /\ req[w].status = 200 /\ req[w].arg = "f2"
        /\ req[v].loaded = req[w].loaded
        /\ FlavorOf(req[v].submitted) = "f1"
        /\ FlavorOf(files[req[v].path]) = "f2"
        /\ FlavorOf(applied[req[v].path]) = "f2"

\* C18: a handleVMAction request whose action is none of start, stop and
\* delete ends with 400 and has run no action command.
C18_UnsupportedActionIs400 ==
    \A w \in Workers :
        Served(w, "handleVMAction") /\ req[w].arg \notin {"start", "stop", "delete"} =>
            /\ Done(w)
            /\ req[w].status = 400
            /\ req[w].ncmd = 0

\* the resource a manifest document describes: namespace and name
ResourceOf(y) == <<y.m["metadata"].m["namespace"].s, y.m["metadata"].m["name"].s>>

\* C19: the path of a manifest file that exists is the path of one (tenant,
\* name) pair only, distinct pairs having distinct manifest paths; a resize
\* loads only the manifest of its own resource, and a createVM or resize
\* overwrites no file that holds the applied manifest of another resource.
C19_OneFilePerResource ==
    /\ \A t1, t2 \in HyphenTeams, n1, n2 \in HyphenNames :
          <<t1, n1>> # <<t2, n2>> /\ Exists(VMPath(t1, n1)) =>
              VMPath(t1, n1) # VMPath(t2, n2)
    /\ \A w \in Workers :
          /\ Served(w, "resizeVM") /\ ~LacksForProvider(req[w].loaded) =>
                ResourceOf(req[w].loaded) = <<req[w].team, req[w].name>>
          /\ req[w].kind \in {"createVM", "resizeVM"} /\ req[w].pc = "open"
             /\ req[w].path \in DOMAIN applied =>
                ResourceOf(applied[req[w].path]) = <<req[w].team, req[w].name>>

\* C20: the document the kubectl apply of a register-team, attach-disk or
\* create-block-volume request read is the manifest that request built from
\* its own tenant and parameters; in particular its file existed then.
C20_CreationsIndependent ==
    \A w \in Workers :
        req[w].temp /\ req[w].napply = 1 => req[w].submitted = Marshal(req[w].doc)

====
